---- MODULE Spec2Model ----
(***************************************************************************)
(* Model of the fastest-address selection engine of dnsproxy               *)
(* (proxy/fastest_addr.go): the reachability cache with its packed 7-byte  *)
(* entries, the cache-only pass (getFromCache), the launch pass and the    *)
(* probe race (pingDo, pingDoTCP, pingWait) of exchangeFastest, and the    *)
(* response rewriter (prepareReply).                                       *)
(*                                                                         *)
(* Go values are modelled as follows.  A net.IP is the sequence of its     *)
(* bytes (4 or 16 of them; the empty sequence is nil).  A *dns.Msg is an   *)
(* index into the per-query message store msgs[q] (0 is nil), so that the  *)
(* in-place rewrite of prepareReply is visible through every alias.        *)
(* A pointer &r to the range variable of a for-range loop is modelled by   *)
(* the value that variable holds when the pointer is read: the module is   *)
(* built with the Go 1.13 toolchain (.travis.yml), where the range         *)
(* variable is one variable per loop and not one per iteration.            *)
(***************************************************************************)
EXTENDS Integers, Sequences, FiniteSets, TLC

(***************************************************************************)
(* Program constants.                                                      *)
(***************************************************************************)
cacheTTLSec == 600

\* 0xffff, the initial minLatency of getFromCache
minLatencyInit == 65535

(***************************************************************************)
(* Bounds of the model.                                                    *)
(***************************************************************************)
\* Unix time of the first state
StartTime == 1000
\* the clock advances at most MaxTicks times, by one TTL each time
MaxTicks == 1
\* calls of exchangeFastest in one behaviour
MaxQueries == 2

TickStep == cacheTTLSec

\* latencies (ms) a successful probe may measure
Latencies == {1, 2, 65535}

(***************************************************************************)
(* net.IP                                                                  *)
(***************************************************************************)
NilIP == << >>

v4InV6Prefix == <<0, 0, 0, 0, 0, 0, 0, 0, 0, 0, 255, 255>>

\* net.IP.To4: the 4-byte form of an IPv4 address, nil otherwise
To4(ip) ==
    IF Len(ip) = 4 THEN ip
    ELSE IF Len(ip) = 16 /\ SubSeq(ip, 1, 12) = v4InV6Prefix
         THEN SubSeq(ip, 13, 16)
         ELSE NilIP

\* net.IP.Equal: an IPv4 address and its v4-mapped IPv6 form are equal
IPEqual(ip, x) ==
    IF Len(ip) = Len(x) THEN ip = x
    ELSE IF Len(ip) = 4 /\ Len(x) = 16
         THEN SubSeq(x, 1, 12) = v4InV6Prefix /\ ip = SubSeq(x, 13, 16)
    ELSE IF Len(ip) = 16 /\ Len(x) = 4
         THEN SubSeq(ip, 1, 12) = v4InV6Prefix /\ SubSeq(ip, 13, 16) = x
    ELSE FALSE

\* the addresses of the model
IPa == <<1, 1, 1, 1>>
IPb == <<9, 9, 9, 9>>
\* ::ffff:1.1.1.1, the v4-mapped form of IPa
IPm == v4InV6Prefix \o IPa

\* 2001:db8::1, an IPv6 address that has no 4-byte form
IP6 == <<32, 1, 13, 184, 0, 0, 0, 0, 0, 0, 0, 0, 0, 0, 0, 1>>

AllIPs == {IPa, IPb, IPm, IP6}

(***************************************************************************)
(* The packed cache entry: expire [4]byte, status byte, latency [2]byte,   *)
(* big-endian.  32-bit values are handled as two 16-bit halves.            *)
(***************************************************************************)
\* the nil *cacheEntry; panic marks a call that ended in a run-time panic
\* instead of returning
NilEnt == [ok |-> FALSE, panic |-> FALSE, status |-> 0, latencyMsec |-> 0]

PanicEnt == [ok |-> FALSE, panic |-> TRUE, status |-> 0, latencyMsec |-> 0]

PutUint16(v) == <<(v \div 256) % 256, v % 256>>

Uint16(b) == b[1] * 256 + b[2]

\* uint32(time.Now().Unix()) + cacheTTLSec, as <<high half, low half>>, the
\* clock given as the part above its low 16 bits and its low 16 bits
ExpireOfAt(thi, tlo) ==
    LET lo == tlo + cacheTTLSec
        hi == (thi % 65536) + (lo \div 65536)
    IN  <<hi % 65536, lo % 65536>>

ExpireOf(t) == ExpireOfAt(t \div 65536, t % 65536)

packCacheEntryAt(ent, thi, tlo) ==
    LET expire == ExpireOfAt(thi, tlo)
    IN  PutUint16(expire[1]) \o PutUint16(expire[2])
          \o <<ent.status % 256>>
          \o PutUint16(ent.latencyMsec % 65536)

packCacheEntry(ent, t) == packCacheEntryAt(ent, t \div 65536, t % 65536)

\* an expiry test that lets the record live through its last second
ExpiredAt_Strict(data, thi, tlo) ==
    LET hi == Uint16(SubSeq(data, 1, 2))
        lo == Uint16(SubSeq(data, 3, 4))
    IN  hi < thi \/ (hi = thi /\ lo < tlo)

\* int64(expire) <= now
ExpiredAt(data, thi, tlo) ==
    LET hi == Uint16(SubSeq(data, 1, 2))
        lo == Uint16(SubSeq(data, 3, 4))
    IN  hi < thi \/ (hi = thi /\ lo <= tlo)

Expired(data, t) == ExpiredAt(data, t \div 65536, t % 65536)

\* data[:4] needs four bytes (a value with no spare capacity), data[i] a
\* fifth and Uint16(data[i:]) two more: a slice or index out of range panics
unpackCacheEntryAt(data, thi, tlo) ==
    IF Len(data) < 4 THEN PanicEnt
    ELSE IF ExpiredAt(data, thi, tlo) THEN NilEnt
    ELSE IF Len(data) < 7 THEN PanicEnt
    ELSE [ok |-> TRUE, panic |-> FALSE,
          status |-> data[5],
          latencyMsec |-> Uint16(SubSeq(data, 6, 7))]

unpackCacheEntry(data, t) == unpackCacheEntryAt(data, t \div 65536, t % 65536)

\* f.cache.Get(ip): the key is the byte string given, as it is
cacheFind(c, ip, t) ==
    IF ip \notin DOMAIN c \/ c[ip] = << >> THEN NilEnt
    ELSE unpackCacheEntry(c[ip], t)

\* a key that is the address as given
cacheKey_AsGiven(addr) == addr

\* the key cacheAdd stores under
cacheKey(addr) == IF To4(addr) = NilIP THEN addr ELSE To4(addr)

cacheAdd(c, ent, addr, t) ==
    [c EXCEPT ![cacheKey(addr)] = packCacheEntry(ent, t)]

(***************************************************************************)
(* DNS messages.  A resource record is [Rrtype, ip]; a message is          *)
(* [Id, Answer].  Only the Answer section is ever written.                 *)
(***************************************************************************)
RRA(ip) == [Rrtype |-> "A", ip |-> ip]
RRAAAA(ip) == [Rrtype |-> "AAAA", ip |-> ip]
RRCNAME == [Rrtype |-> "CNAME", ip |-> NilIP]

IsAddrRR(a) == a.Rrtype \in {"A", "AAAA"}

\* the address a reply loop takes from a record: addr.A.To4() or addr.AAAA
RRAddr(a) == IF a.Rrtype = "A" THEN To4(a.ip) ELSE a.ip

NilReply == [Resp |-> 0, Upstream |-> "nil"]

\* what the upstreams may answer: one list of (upstream, answer section) per
\* element, in the order ExchangeAll returns them
ReplySets ==
    { << [Upstream |-> "u1", Answer |-> <<RRA(IPa)>>],
         [Upstream |-> "u2", Answer |-> <<RRA(IPb)>>] >>,
      << [Upstream |-> "u1", Answer |-> <<RRCNAME, RRA(IPa), RRA(IPb)>>] >>,
      << [Upstream |-> "u1", Answer |-> <<RRA(IPa)>>],
         [Upstream |-> "u2", Answer |-> <<RRAAAA(IPm)>>] >>,
      << [Upstream |-> "u1", Answer |-> <<RRCNAME, RRA(IPb)>>] >>,
      << [Upstream |-> "u1", Answer |-> <<RRCNAME>>],
         [Upstream |-> "u2", Answer |-> <<RRA(IPb)>>] >>,
      << [Upstream |-> "u1", Answer |-> <<RRCNAME>>] >> }

\* upstream.ExchangeAll: an error, or every successful response
ExchangeAllOutcomes ==
    {[err |-> TRUE, replies |-> << >>], [err |-> FALSE, replies |-> << >>]}
      \cup {[err |-> FALSE, replies |-> rs] : rs \in ReplySets}

(***************************************************************************)
(* The reply loops.  Candidates lists, in response order then answer       *)
(* order, the address of every A/AAAA record with the index of the reply   *)
(* the loop is iterating when it reaches the record.                       *)
(***************************************************************************)
RECURSIVE AnswerAddrs(_, _, _)
AnswerAddrs(ans, j, idx) ==
    IF j > Len(ans) THEN << >>
    ELSE (IF IsAddrRR(ans[j])
          THEN << [ip |-> RRAddr(ans[j]), idx |-> idx] >>
          ELSE << >>) \o AnswerAddrs(ans, j + 1, idx)

RECURSIVE CandidatesFrom(_, _, _)
CandidatesFrom(rs, ms, i) ==
    IF i > Len(rs) THEN << >>
    ELSE AnswerAddrs(ms[rs[i].Resp].Answer, 1, i) \o CandidatesFrom(rs, ms, i + 1)

Candidates(rs, ms) == CandidatesFrom(rs, ms, 1)

\* a count without the type switch: every record of every answer section
totalIPAddrs_NoTypeSwitch(rs, ms) ==
    LET RECURSIVE count(_)
        count(i) == IF i > Len(rs) THEN 0
                    ELSE Len(ms[rs[i].Resp].Answer) + count(i + 1)
    IN  count(1)

totalIPAddrs(rs, ms) == Len(Candidates(rs, ms))

\* a pointer that keeps the first element the range variable held
RangeVarAfterLoop_First(rs) == IF Len(rs) = 0 THEN NilReply ELSE rs[1]

\* The value read through a pointer &r taken inside `for _, r := range
\* replies` once the loop has ended: r is one variable for the whole loop
\* and holds the last element it was assigned.
RangeVarAfterLoop(rs) == IF Len(rs) = 0 THEN NilReply ELSE rs[Len(rs)]

\* the loop of getFromCache without the test of ent.status
RECURSIVE getFromCacheLoop_AnyStatus(_, _, _, _, _)
getFromCacheLoop_AnyStatus(cands, i, acc, c, t) ==
    IF i > Len(cands) THEN acc
    ELSE LET ip == cands[i].ip
             ent == cacheFind(c, ip, t)
             better == ent.ok /\ acc.minLatency > ent.latencyMsec
         IN  getFromCacheLoop_AnyStatus(cands, i + 1,
                 [n |-> IF ent.ok THEN acc.n + 1 ELSE acc.n,
                  found |-> acc.found \/ better,
                  fastestIP |-> IF better THEN ip ELSE acc.fastestIP,
                  minLatency |-> IF better THEN ent.latencyMsec ELSE acc.minLatency],
                 c, t)

RECURSIVE getFromCacheLoop(_, _, _, _, _)
getFromCacheLoop(cands, i, acc, c, t) ==
    IF i > Len(cands) THEN acc
    ELSE LET ip == cands[i].ip
             ent == cacheFind(c, ip, t)
             better == ent.ok /\ ent.status = 0 /\ acc.minLatency > ent.latencyMsec
         IN  getFromCacheLoop(cands, i + 1,
                 [n |-> IF ent.ok THEN acc.n + 1 ELSE acc.n,
                  found |-> acc.found \/ better,
                  fastestIP |-> IF better THEN ip ELSE acc.fastestIP,
                  minLatency |-> IF better THEN ent.latencyMsec ELSE acc.minLatency],
                 c, t)

\* (fastestRes, fastestIP, n); fastestRes is &r, read by the caller after the loop
getFromCache(rs, ms, c, t) ==
    LET acc == getFromCacheLoop(Candidates(rs, ms), 1,
                   [n |-> 0, found |-> FALSE, fastestIP |-> NilIP,
                    minLatency |-> minLatencyInit], c, t)
    IN  IF acc.found
        THEN [found |-> TRUE, res |-> RangeVarAfterLoop(rs), ip |-> acc.fastestIP,
              n |-> acc.n]
        ELSE [found |-> FALSE, res |-> NilReply, ip |-> NilIP, n |-> acc.n]

(***************************************************************************)
(* prepareReply: keep the A/AAAA records equal to address and every other  *)
(* record.                                                                 *)
(***************************************************************************)
\* a type switch whose default case appends nothing
KeepRR_DropsOthers(a, address) ==
    IF a.Rrtype = "A" THEN IPEqual(To4(address), To4(a.ip))
    ELSE IF a.Rrtype = "AAAA" THEN IPEqual(address, a.ip)
    ELSE FALSE

KeepRR(a, address) ==
    IF a.Rrtype = "A" THEN IPEqual(To4(address), To4(a.ip))
    ELSE IF a.Rrtype = "AAAA" THEN IPEqual(address, a.ip)
    ELSE TRUE

\* variant: the first record kept is lost on every application
prepareReply_LosesFirst(resp, address) ==
    LET ans == SelectSeq(resp.Answer, LAMBDA a : KeepRR(a, address))
    IN  [resp EXCEPT !.Answer = IF ans = << >> THEN ans ELSE Tail(ans)]

prepareReply(resp, address) ==
    [resp EXCEPT !.Answer = SelectSeq(resp.Answer, LAMBDA a : KeepRR(a, address))]

\* the message store after prepareReply(msgs[r], address), r # 0
\* variant: the filter applied to every reply of the query
Rewrite_All(ms, r, address) == [i \in DOMAIN ms |-> prepareReply(ms[i], address)]

Rewrite(ms, r, address) == [ms EXCEPT ![r] = prepareReply(ms[r], address)]

(***************************************************************************)
(* The probes.  A probe is a goroutine started by the launch pass; what it *)
(* measures is chosen when it finishes.  An outcome is [path, latency].    *)
(***************************************************************************)
ICMPOutcomes ==
    {[path |-> "newpinger_error", latency |-> 0], [path |-> "no_reply", latency |-> 0]}
      \cup {[path |-> "reply", latency |-> l] : l \in Latencies}

TCPOutcomes ==
    {[path |-> "dial_error", latency |-> 0]}
      \cup {[path |-> "connected", latency |-> l] : l \in Latencies}

\* the pingResult a probe builds: res.exres is &r and is not stored, see
\* RangeVarAfterLoop; origin is the index of the reply r held at launch
Result(p, pid, failed, latency) ==
    [addr |-> p.addr, origin |-> p.origin, isICMP |-> p.isICMP, pid |-> pid,
     err |-> failed, latencyMsec |-> latency]

\* pingDo without the return that follows the send of a NewPinger error
pingDoSends_NoReturn(p, pid, o) ==
    IF o.path = "newpinger_error"
    THEN << Result(p, pid, TRUE, 0), Result(p, pid, TRUE, 0) >>
    ELSE IF o.path = "no_reply" THEN << Result(p, pid, TRUE, 0) >>
    ELSE << Result(p, pid, FALSE, o.latency) >>

\* the results pingDo sends on ch, in order, on the path taken
pingDoSends(p, pid, o) ==
    IF o.path = "newpinger_error" THEN << Result(p, pid, TRUE, 0) >>
    ELSE IF o.path = "no_reply" THEN << Result(p, pid, TRUE, 0) >>
    ELSE << Result(p, pid, FALSE, o.latency) >>

\* the results pingDoTCP sends on ch, in order, on the path taken
pingDoTCPSends(p, pid, o) ==
    IF o.path = "dial_error" THEN << Result(p, pid, TRUE, 0) >>
    ELSE << Result(p, pid, FALSE, o.latency) >>

\* pingWait storing a failed result with the zero value of ent.status
pingWaitStep_FailureStoredAsOk(res, n, tot) ==
    IF res.err
    THEN [ent |-> [status |-> 0, latencyMsec |-> 0],
          exit |-> IF n = tot THEN "timed_out" ELSE "loop"]
    ELSE [ent |-> [status |-> 0, latencyMsec |-> res.latencyMsec],
          exit |-> "winner"]

\* pingWait returning only on an ICMP success
pingWaitStep_ICMPOnly(res, n, tot) ==
    IF res.err
    THEN [ent |-> [status |-> 1, latencyMsec |-> 0],
          exit |-> IF n = tot THEN "timed_out" ELSE "loop"]
    ELSE [ent |-> [status |-> 0, latencyMsec |-> res.latencyMsec],
          exit |-> IF res.isICMP THEN "winner"
                   ELSE IF n = tot THEN "timed_out" ELSE "loop"]

\* pingWait whose `break` leaves the loop iteration without the n == total check
pingWaitStep_NoExitCheck(res, n, tot) ==
    IF res.err
    THEN [ent |-> [status |-> 1, latencyMsec |-> 0], exit |-> "loop"]
    ELSE [ent |-> [status |-> 0, latencyMsec |-> res.latencyMsec],
          exit |-> "winner"]

\* one iteration of pingWait's loop on the result received as the n-th of
\* total: the entry it stores and how the iteration ends
pingWaitStep(res, n, tot) ==
    IF res.err
    THEN [ent |-> [status |-> 1, latencyMsec |-> 0],
          exit |-> IF n = tot THEN "timed_out" ELSE "loop"]
    ELSE [ent |-> [status |-> 0, latencyMsec |-> res.latencyMsec],
          exit |-> "winner"]

\* a launch loop without the lookup: every candidate is probed
RECURSIVE launchLoop_NoLookup(_, _, _, _, _, _)
launchLoop_NoLookup(cands, i, c, t, icmp, tcp) ==
    IF i > Len(cands) THEN << >>
    ELSE (IF icmp
          THEN << [addr |-> cands[i].ip, origin |-> cands[i].idx,
                   isICMP |-> TRUE, st |-> "running", sends |-> 0] >>
          ELSE << >>)
         \o (IF tcp
             THEN << [addr |-> cands[i].ip, origin |-> cands[i].idx,
                      isICMP |-> FALSE, st |-> "running", sends |-> 0] >>
             ELSE << >>)
         \o launchLoop_NoLookup(cands, i + 1, c, t, icmp, tcp)

\* the probes the launch pass starts, in order
RECURSIVE launchLoop(_, _, _, _, _, _)
launchLoop(cands, i, c, t, icmp, tcp) ==
    IF i > Len(cands) THEN << >>
    ELSE (IF cacheFind(c, cands[i].ip, t).ok THEN << >>
          ELSE (IF icmp
                THEN << [addr |-> cands[i].ip, origin |-> cands[i].idx,
                         isICMP |-> TRUE, st |-> "running", sends |-> 0] >>
                ELSE << >>)
               \o (IF tcp
                   THEN << [addr |-> cands[i].ip, origin |-> cands[i].idx,
                            isICMP |-> FALSE, st |-> "running", sends |-> 0] >>
                   ELSE << >>))
         \o launchLoop(cands, i + 1, c, t, icmp, tcp)

(***************************************************************************)
(* State.                                                                  *)
(***************************************************************************)
Queries == {"q1", "q2"}

VARIABLES
    now,        \* time.Now().Unix()
    cache,      \* f.cache: key bytes -> packed entry, << >> when absent
    allowICMP,  \* f.allowICMP
    allowTCP,   \* f.allowTCP
    started,    \* calls of exchangeFastest made so far
    pc,         \* where each call of exchangeFastest is
    replies,    \* replies: sequence of [Resp, Upstream]
    msgs,       \* the messages the replies point to
    msgs0,      \* the messages as ExchangeAll returned them
    total,      \* the local variable total
    cached,     \* (exresCached, addressCached, nCached)
    chcap,      \* cap(ch)
    ch,         \* the results buffered in ch
    probes,     \* the goroutines started by the launch pass
    n,          \* pingWait's n
    recvd,      \* the results pingWait has received, in order
    cache0,     \* the cache when ExchangeAll returned
    now0,       \* the clock when ExchangeAll returned
    ret,        \* what exchangeFastest returned
    lastAdd,    \* the last direct call of cacheAdd: its arguments and time
    lastFind,   \* the direct call of cacheFind made since: argument, result, time
    codec,      \* the last direct call of packCacheEntry and of unpackCacheEntry
    applied     \* the direct calls of prepareReply on one message, so far

vars == <<now, cache, allowICMP, allowTCP, started, pc, replies, msgs, msgs0,
          total, cached, chcap, ch, probes, n, recvd, cache0, now0, ret,
          lastAdd, lastFind, codec, applied>>

queryVars == <<allowICMP, allowTCP, started, pc, replies, msgs, msgs0, total,
               cached, chcap, ch, probes, n, recvd, cache0, now0, ret>>

NoRet == [path |-> "none", resp |-> 0, upstream |-> "nil", err |-> FALSE,
          address |-> NilIP]

NoCached == [found |-> FALSE, res |-> NilReply, ip |-> NilIP, n |-> 0]

EmptyCache == [k \in AllIPs |-> << >>]

NoAdd == [done |-> FALSE, addr |-> NilIP,
          ent |-> [status |-> 0, latencyMsec |-> 0], t |-> 0]

NoFind == [done |-> FALSE, ip |-> NilIP, ent |-> NilEnt, t |-> 0]

NoCodec == [stage |-> "none", ent |-> [status |-> 0, latencyMsec |-> 0],
            t |-> <<0, 0>>, data |-> << >>, len |-> 0, at |-> <<0, 0>>,
            out |-> NilEnt]

NoApplied == [n |-> 0, address |-> NilIP, resp |-> [Id |-> 0, Answer |-> << >>],
              once |-> << >>, prev |-> << >>, out |-> << >>]

\* Init(): an empty cache, both probe families allowed
Init ==
    /\ now = StartTime
    /\ cache = EmptyCache
    /\ allowICMP = TRUE
    /\ allowTCP = TRUE
    /\ started = 0
    /\ pc = [q \in Queries |-> "idle"]
    /\ replies = [q \in Queries |-> << >>]
    /\ msgs = [q \in Queries |-> << >>]
    /\ msgs0 = [q \in Queries |-> << >>]
    /\ total = [q \in Queries |-> 0]
    /\ cached = [q \in Queries |-> NoCached]
    /\ chcap = [q \in Queries |-> 0]
    /\ ch = [q \in Queries |-> << >>]
    /\ probes = [q \in Queries |-> << >>]
    /\ n = [q \in Queries |-> 0]
    /\ recvd = [q \in Queries |-> << >>]
    /\ cache0 = [q \in Queries |-> EmptyCache]
    /\ now0 = [q \in Queries |-> StartTime]
    /\ ret = [q \in Queries |-> NoRet]
    /\ lastAdd = NoAdd
    /\ lastFind = NoFind
    /\ codec = NoCodec
    /\ applied = NoApplied

\* an error return that still names an upstream
ErrorReturn_WithUpstream(err) ==
    [NoRet EXCEPT !.path = "error", !.err = err, !.upstream = "u1"]

\* return nil, nil, err
ErrorReturn(err) == [NoRet EXCEPT !.path = "error", !.err = err]

\* a return of the last reply instead of the first
FirstReply_Last(rs, path) ==
    [path |-> path, resp |-> rs[Len(rs)].Resp, upstream |-> rs[Len(rs)].Upstream,
     err |-> FALSE, address |-> NilIP]

\* return replies[0].Resp, replies[0].Upstream, nil
FirstReply(rs, path) ==
    [path |-> path, resp |-> rs[1].Resp, upstream |-> rs[1].Upstream,
     err |-> FALSE, address |-> NilIP]

\* variant: the rewritten response with the upstream of the first reply
Rewritten_FirstUpstream(exres, address, path) ==
    [path |-> path, resp |-> exres.Resp, upstream |-> "u1",
     err |-> FALSE, address |-> address]

\* return prepareReply(exres.Resp, address), exres.Upstream, nil
Rewritten(exres, address, path) ==
    [path |-> path, resp |-> exres.Resp, upstream |-> exres.Upstream,
     err |-> FALSE, address |-> address]

(***************************************************************************)
(* exchangeFastest from its call to the end of the cache-only pass:        *)
(* ExchangeAll returns, the A/AAAA records are counted and looked up.      *)
(***************************************************************************)
ExchangeFastest(q) ==
    /\ pc[q] \in {"idle", "done"}
    /\ started < MaxQueries
    /\ started' = started + 1
    /\ \E out \in ExchangeAllOutcomes :
         LET rs == [i \in 1..Len(out.replies) |->
                       [Resp |-> i, Upstream |-> out.replies[i].Upstream]]
             ms == [i \in 1..Len(out.replies) |->
                       [Id |-> i, Answer |-> out.replies[i].Answer]]
             tot == totalIPAddrs(rs, ms)
             g == getFromCache(rs, ms, cache, now)
             failed == out.err \/ Len(rs) = 0
             short == ~failed /\ tot <= 1
             fast == ~failed /\ ~short /\ g.found /\ g.n = tot
         IN  /\ replies' = [replies EXCEPT ![q] = rs]
             /\ msgs0' = [msgs0 EXCEPT ![q] = ms]
             /\ msgs' = [msgs EXCEPT ![q] =
                            IF fast THEN Rewrite(ms, g.res.Resp, g.ip) ELSE ms]
             /\ total' = [total EXCEPT ![q] = IF failed THEN 0 ELSE tot]
             /\ cached' = [cached EXCEPT ![q] =
                              IF failed \/ short THEN NoCached ELSE g]
             /\ ret' = [ret EXCEPT ![q] =
                           IF failed
                           THEN ErrorReturn(out.err)
                           ELSE IF short THEN FirstReply(rs, "short")
                           ELSE IF fast THEN Rewritten(g.res, g.ip, "fast")
                           ELSE NoRet]
             /\ pc' = [pc EXCEPT ![q] =
                          IF failed \/ short \/ fast THEN "done" ELSE "launch"]
    /\ chcap' = [chcap EXCEPT ![q] = 0]
    /\ ch' = [ch EXCEPT ![q] = << >>]
    /\ probes' = [probes EXCEPT ![q] = << >>]
    /\ n' = [n EXCEPT ![q] = 0]
    /\ recvd' = [recvd EXCEPT ![q] = << >>]
    /\ cache0' = [cache0 EXCEPT ![q] = cache]
    /\ now0' = [now0 EXCEPT ![q] = now]
    /\ UNCHANGED <<applied, codec, lastAdd, lastFind, now, cache, allowICMP, allowTCP>>

(***************************************************************************)
(* The launch pass: the channel is made with room for `total` results,     *)
(* every candidate is looked up again and the probes are started.          *)
(***************************************************************************)
LaunchPass(q) ==
    /\ pc[q] = "launch"
    /\ LET launched == launchLoop(Candidates(replies[q], msgs[q]), 1, cache, now,
                                  allowICMP, allowTCP)
       IN  /\ chcap' = [chcap EXCEPT ![q] = total[q]]
           /\ total' = [total EXCEPT ![q] = Len(launched)]
           /\ probes' = [probes EXCEPT ![q] = launched]
           /\ IF Len(launched) = 0
              THEN /\ ret' = [ret EXCEPT ![q] = FirstReply(replies[q], "no_probes")]
                   /\ pc' = [pc EXCEPT ![q] = "done"]
              ELSE /\ ret' = ret
                   /\ pc' = [pc EXCEPT ![q] = "wait"]
    /\ UNCHANGED <<applied, codec, lastAdd, lastFind, now, cache, allowICMP, allowTCP, started, replies, msgs, msgs0,
                   cached, ch, n, recvd, cache0, now0>>

\* a probe that stores its own result in the cache before it sends it
ProbeEnds_StoresResult(q, i, sends) ==
    /\ Len(ch[q]) + Len(sends) <= chcap[q]
    /\ ch' = [ch EXCEPT ![q] = ch[q] \o sends]
    /\ probes' = [probes EXCEPT ![q][i].st = "returned",
                                ![q][i].sends = probes[q][i].sends + Len(sends)]
    /\ cache' = cacheAdd(cache,
                         [status |-> IF sends[1].err THEN 1 ELSE 0,
                          latencyMsec |-> sends[1].latencyMsec],
                         sends[1].addr, now)
    /\ UNCHANGED <<applied, codec, lastAdd, lastFind, now, allowICMP, allowTCP, started, pc, replies,
                   msgs, msgs0, total, cached, chcap, n, recvd, cache0, now0, ret>>

\* a probe goroutine runs to its end: it sends what its path sends, each
\* send waiting for room in ch
ProbeEnds(q, i, sends) ==
    /\ Len(ch[q]) + Len(sends) <= chcap[q]
    /\ ch' = [ch EXCEPT ![q] = ch[q] \o sends]
    /\ probes' = [probes EXCEPT ![q][i].st = "returned",
                                ![q][i].sends = probes[q][i].sends + Len(sends)]
    /\ UNCHANGED <<applied, codec, lastAdd, lastFind, now, cache, allowICMP, allowTCP, started, pc, replies, msgs,
                   msgs0, total, cached, chcap, n, recvd, cache0, now0, ret>>

pingDo(q, i) ==
    /\ i \in DOMAIN probes[q]
    /\ probes[q][i].isICMP
    /\ probes[q][i].st = "running"
    /\ \E o \in ICMPOutcomes : ProbeEnds(q, i, pingDoSends(probes[q][i], i, o))

pingDoTCP(q, i) ==
    /\ i \in DOMAIN probes[q]
    /\ ~probes[q][i].isICMP
    /\ probes[q][i].st = "running"
    /\ \E o \in TCPOutcomes : ProbeEnds(q, i, pingDoTCPSends(probes[q][i], i, o))

(***************************************************************************)
(* pingWait receives one result, stores it in the cache and either loops   *)
(* or returns; exchangeFastest then returns in the same step.              *)
(***************************************************************************)
\* a receiver that keeps draining ch after exchangeFastest has returned
pingWaitReceives_Drain(q) == pc[q] = "wait" \/ (pc[q] = "done" /\ Len(probes[q]) > 0)

\* pingWait is in its loop, about to receive from ch
pingWaitReceives(q) == pc[q] = "wait"

pingWait(q) ==
    /\ pingWaitReceives(q)
    /\ Len(ch[q]) > 0
    /\ LET res == Head(ch[q])
           step == pingWaitStep(res, n[q] + 1, total[q])
           exres == RangeVarAfterLoop(replies[q])
       IN  /\ ch' = [ch EXCEPT ![q] = Tail(ch[q])]
           /\ n' = [n EXCEPT ![q] = n[q] + 1]
           /\ recvd' = [recvd EXCEPT ![q] = Append(recvd[q], res)]
           /\ cache' = cacheAdd(cache, step.ent, res.addr, now)
           /\ IF step.exit = "winner"
              THEN /\ msgs' = [msgs EXCEPT ![q] = Rewrite(msgs[q], exres.Resp, res.addr)]
                   /\ ret' = [ret EXCEPT ![q] = Rewritten(exres, res.addr, "probe")]
                   /\ pc' = [pc EXCEPT ![q] = "done"]
              ELSE IF step.exit = "timed_out"
              THEN /\ msgs' = msgs
                   /\ ret' = [ret EXCEPT ![q] = FirstReply(replies[q], "all_failed")]
                   /\ pc' = [pc EXCEPT ![q] = "done"]
              ELSE /\ msgs' = msgs
                   /\ ret' = ret
                   /\ pc' = pc
    /\ UNCHANGED <<applied, codec, lastAdd, lastFind, now, allowICMP, allowTCP, started, replies, msgs0, total, cached,
                   chcap, probes, cache0, now0>>

\* the clock advances
Tick ==
    /\ now + TickStep <= StartTime + MaxTicks * TickStep
    /\ now' = now + TickStep
    /\ UNCHANGED <<applied, codec, lastAdd, lastFind, cache, allowICMP, allowTCP, started, pc, replies, msgs, msgs0,
                   total, cached, chcap, ch, probes, n, recvd, cache0, now0, ret>>

\* a query launches at most two probes for each of at most MaxCandidates records
MaxCandidates == 2
ProbeIds == 1..(2 * MaxCandidates)

Step(q) ==
    \/ ExchangeFastest(q)
    \/ LaunchPass(q)
    \/ \E i \in ProbeIds : pingDo(q, i)
    \/ \E i \in ProbeIds : pingDoTCP(q, i)
    \/ pingWait(q)

\* one query at a time: the calls of exchangeFastest follow each other
Next == Step("q1") \/ Tick

Spec == Init /\ [][Next]_vars

(***************************************************************************)
(* The race under fairness: the launch pass runs to its end, some probe    *)
(* that can send its result does so, and pingWait receives when ch holds a *)
(* result.  No fairness is assumed of the caller making more queries.  The *)
(* clock is held: the race reads it only to stamp the entries it stores.   *)
(***************************************************************************)
ProbeRuns(q) == \E i \in ProbeIds : pingDo(q, i) \/ pingDoTCP(q, i)

Fairness ==
    /\ WF_vars(LaunchPass("q1"))
    /\ WF_vars(ProbeRuns("q1"))
    /\ WF_vars(pingWait("q1"))

FairNext == Step("q1")

FairSpec == Init /\ [][FairNext]_vars /\ Fairness

(***************************************************************************)
(* Queries running concurrently share the cache and nothing else.  A query *)
(* reads the cache in its cache-only pass and in its launch pass, so what  *)
(* another query does matters to it only when it happens between the two:  *)
(* the pingWait of another call of exchangeFastest receives a result for   *)
(* one of the addresses this query is about, one the other query found     *)
(* uncached, and stores it.  The clock is held.                            *)
(***************************************************************************)
OtherEnts ==
    {[status |-> 1, latencyMsec |-> 0]}
      \cup {[status |-> 0, latencyMsec |-> l] : l \in Latencies}

OtherQueryCaches(q, addr, ent) ==
    /\ pc[q] = "launch"
    /\ \E k \in 1..Len(Candidates(replies[q], msgs[q])) :
           Candidates(replies[q], msgs[q])[k].ip = addr
    /\ ~cacheFind(cache, cacheKey(addr), now).ok
    /\ cache' = cacheAdd(cache, ent, addr, now)
    /\ UNCHANGED <<applied, codec, now, lastAdd, lastFind, queryVars>>

ConcNext ==
    \/ Step("q1")
    \/ \E addr \in AllIPs, ent \in OtherEnts : OtherQueryCaches("q1", addr, ent)

ConcSpec == Init /\ [][ConcNext]_vars

(***************************************************************************)
(* Two calls of exchangeFastest that launched their probes together: both  *)
(* found addr uncached and started probes for it, and while this query is  *)
(* in pingWait the pingWait of the other call receives a result for addr   *)
(* and stores it.  The clock is held.                                      *)
(***************************************************************************)
\* what the other call stores: a failure, or a success after one millisecond
RaceEnts == {[status |-> 1, latencyMsec |-> 0], [status |-> 0, latencyMsec |-> 1]}

OtherQueryRecords(q, addr, ent) ==
    /\ pc[q] = "wait"
    /\ \E i \in 1..Len(probes[q]) : probes[q][i].addr = addr
    /\ cache' = cacheAdd(cache, ent, addr, now)
    /\ UNCHANGED <<applied, codec, now, lastAdd, lastFind, queryVars>>

RaceNext ==
    \/ Step("q1")
    \/ \E addr \in AllIPs, ent \in RaceEnts : OtherQueryRecords("q1", addr, ent)

RaceSpec == Init /\ [][RaceNext]_vars

(***************************************************************************)
(* The cache on its own: cacheAdd and cacheFind called directly, with any  *)
(* address and any entry, while the clock advances by one second less than *)
(* the TTL or by the TTL.  The queries stay as Init leaves them.           *)
(***************************************************************************)
CacheEnts == {[status |-> st, latencyMsec |-> l] : st \in {0, 1}, l \in {258, 65535}}

\* an IPv4 address in both its forms and an IPv6 address
CacheIPs == {IPa, IPm, IP6}

CacheClockSteps == {cacheTTLSec - 1, cacheTTLSec}

CacheHorizon == StartTime + 2 * cacheTTLSec

CacheAddCall(addr, ent) ==
    /\ cache' = cacheAdd(cache, ent, addr, now)
    /\ lastAdd' = [done |-> TRUE, addr |-> addr, ent |-> ent, t |-> now]
    /\ lastFind' = NoFind
    /\ UNCHANGED <<applied, codec, now, queryVars>>

CacheFindCall(ip) ==
    /\ lastFind' = [done |-> TRUE, ip |-> ip, ent |-> cacheFind(cache, ip, now),
                    t |-> now]
    /\ UNCHANGED <<applied, codec, now, cache, lastAdd, queryVars>>

ClockAdvances(d) ==
    /\ now + d <= CacheHorizon
    /\ now' = now + d
    /\ UNCHANGED <<applied, codec, cache, lastAdd, lastFind, queryVars>>

CacheNext ==
    \/ \E addr \in CacheIPs, ent \in CacheEnts : CacheAddCall(addr, ent)
    \/ \E ip \in CacheIPs : CacheFindCall(ip)
    \/ \E d \in CacheClockSteps : ClockAdvances(d)

CacheSpec == Init /\ [][CacheNext]_vars

\* what a lookup made at time t is to return for the entry last stored
StoredEntry(t) ==
    IF t < lastAdd.t + cacheTTLSec
    THEN [ok |-> TRUE, panic |-> FALSE, status |-> lastAdd.ent.status,
          latencyMsec |-> lastAdd.ent.latencyMsec]
    ELSE NilEnt

(***************************************************************************)
(* The record codec on its own: packCacheEntry called with any entry at    *)
(* any clock, unpackCacheEntry called on the record or on a leading part   *)
(* of it, at the time of the write or later.  A clock is <<the part above  *)
(* its low 16 bits, its low 16 bits>>, so that times up to and past 2^32   *)
(* seconds are within reach.                                               *)
(***************************************************************************)
CodecEnts ==
    {[status |-> st, latencyMsec |-> l] :
        st \in {0, 1}, l \in {0, 258, 65535, 65536, 65794}}

\* StartTime, 2^32 - 601, 2^32 - 600, 2^32 - 1 and 2^32
CodecTimes ==
    {<<0, StartTime>>, <<65535, 65535 - cacheTTLSec>>, <<65535, 65536 - cacheTTLSec>>,
     <<65535, 65535>>, <<65536, 0>>}

CodecDelays == {0, cacheTTLSec - 1, cacheTTLSec}

CodecLens == 0..7

AddSeconds(t, d) == <<t[1] + ((t[2] + d) \div 65536), (t[2] + d) % 65536>>

PackCall(ent, t) ==
    /\ codec' = [NoCodec EXCEPT !.stage = "packed", !.ent = ent, !.t = t,
                                !.data = packCacheEntryAt(ent, t[1], t[2])]
    /\ UNCHANGED <<applied, now, cache, lastAdd, lastFind, queryVars>>

UnpackCall(len, d) ==
    /\ codec.stage # "none"
    /\ LET at == AddSeconds(codec.t, d)
       IN  codec' = [codec EXCEPT
                        !.stage = "unpacked", !.len = len, !.at = at,
                        !.out = unpackCacheEntryAt(SubSeq(codec.data, 1, len),
                                                   at[1], at[2])]
    /\ UNCHANGED <<applied, now, cache, lastAdd, lastFind, queryVars>>

CodecNext ==
    \/ \E ent \in CodecEnts, t \in CodecTimes : PackCall(ent, t)
    \/ \E len \in CodecLens, d \in CodecDelays : UnpackCall(len, d)

CodecSpec == Init /\ [][CodecNext]_vars

(***************************************************************************)
(* The response rewriter on its own: prepareReply called on a message with *)
(* any answer section of up to MaxAnswer records and any address, then     *)
(* called again on the message it returned, with the same address, up to   *)
(* MaxApplications calls in all.                                           *)
(***************************************************************************)
MaxAnswer == 3
MaxApplications == 3

\* a CNAME, A records in 4-byte and 16-byte form, AAAA records
ReplyRRs == {RRCNAME, RRA(IPa), RRA(IPb), RRA(IPm), RRAAAA(IPm), RRAAAA(IP6)}

ReplyAnswers == UNION {[1..k -> ReplyRRs] : k \in 0..MaxAnswer}

ReplyAddrs == {NilIP, IPa, IPb, IPm, IP6}

PrepareReplyCall(ans, address) ==
    /\ applied.n = 0
    /\ LET resp == [Id |-> 1, Answer |-> ans]
           out == prepareReply(resp, address).Answer
       IN  applied' = [n |-> 1, address |-> address, resp |-> resp,
                       once |-> out, prev |-> ans, out |-> out]
    /\ UNCHANGED <<codec, now, cache, lastAdd, lastFind, queryVars>>

PrepareReplyAgain ==
    /\ applied.n \in 1..(MaxApplications - 1)
    /\ applied' = [applied EXCEPT
                      !.n = applied.n + 1,
                      !.prev = applied.out,
                      !.out = prepareReply([applied.resp EXCEPT !.Answer = applied.out],
                                           applied.address).Answer]
    /\ UNCHANGED <<codec, now, cache, lastAdd, lastFind, queryVars>>

ReplyNext ==
    \/ \E ans \in ReplyAnswers, address \in ReplyAddrs : PrepareReplyCall(ans, address)
    \/ PrepareReplyAgain

ReplySpec == Init /\ [][ReplyNext]_vars

(***************************************************************************)
(* Definitions used to state the properties.                               *)
(***************************************************************************)
\* the query has returned through a rewrite
Rewrote(q) == pc[q] = "done" /\ ret[q].path \in {"fast", "probe"}

\* the addresses of the A/AAAA records of an answer section
AddrRecords(ans) == SelectSeq(ans, IsAddrRR)

\* the answer section holds an A/AAAA record whose address is w
Contains(ans, w) == \E j \in 1..Len(ans) : IsAddrRR(ans[j]) /\ RRAddr(ans[j]) = w

\* the candidates of the query, as ExchangeAll returned them
Cands(q) == Candidates(replies[q], msgs0[q])

\* the entry the host of ip had when the query started, under its canonical key
HostEntry0(q, ip) == cacheFind(cache0[q], cacheKey(ip), now0[q])

\* the entry the lookup of ip returned when the query started
Lookup0(q, ip) == cacheFind(cache0[q], ip, now0[q])

\* the query went past the short-circuit
PastShortCircuit(q) == pc[q] # "idle" /\ ret[q].path \notin {"error", "short"}

\* the pids of the results pingWait has received
Received(q) == {recvd[q][k].pid : k \in 1..Len(recvd[q])}

\* the pids of the results waiting in ch
Buffered(q) == {ch[q][k].pid : k \in 1..Len(ch[q])}

(***************************************************************************)
(* C1.  When the cache-only pass found a cached winner (latency Lc) and    *)
(* the race produced a probe winner (latency Lp), the address returned is  *)
(* the cached winner's if Lc < Lp and the probe winner's if Lp <= Lc.      *)
(***************************************************************************)
C1_SmallerLatencyWins ==
    \A q \in Queries :
        (pc[q] = "done" /\ ret[q].path = "probe" /\ cached[q].found) =>
            LET Lc == Lookup0(q, cached[q].ip).latencyMsec
                Lp == recvd[q][Len(recvd[q])].latencyMsec
            IN  ret[q].address =
                    IF Lc < Lp THEN cached[q].ip ELSE recvd[q][Len(recvd[q])].addr

(***************************************************************************)
(* C2.  The response handed to prepareReply is the reply whose Answer      *)
(* section contained the winning address.                                  *)
(***************************************************************************)
C2_WinnerKeepsItsReply ==
    \A q \in Queries :
        Rewrote(q) => Contains(msgs0[q][ret[q].resp].Answer, ret[q].address)

(***************************************************************************)
(* C3.  A response returned through a rewrite holds exactly one A/AAAA     *)
(* record, and that record carries the winning address.                    *)
(***************************************************************************)
C3_ExactlyOneAddress ==
    \A q \in Queries :
        Rewrote(q) =>
            LET recs == AddrRecords(msgs[q][ret[q].resp].Answer)
            IN  Len(recs) = 1 /\ RRAddr(recs[1]) = ret[q].address

(***************************************************************************)
(* C4.  pingWait returns the address of the first successful result in    *)
(* delivery order: a success is the last result received, it ends the      *)
(* race with its own address, and every result before it was a failure.    *)
(***************************************************************************)
C4_FirstSuccessWins ==
    \A q \in Queries :
        /\ \A k \in 1..Len(recvd[q]) :
               ~recvd[q][k].err =>
                   /\ k = Len(recvd[q])
                   /\ pc[q] = "done"
                   /\ ret[q].path = "probe"
                   /\ ret[q].address = recvd[q][k].addr
        /\ (pc[q] = "done" /\ ret[q].path = "probe") =>
               /\ Len(recvd[q]) > 0
               /\ ~recvd[q][Len(recvd[q])].err

\* a TCP result wins after an ICMP result failed, for a record of the first
\* of two replies
C4_Witness ==
    /\ pc["q1"] = "done" /\ ret["q1"].path = "probe"
    /\ Len(recvd["q1"]) = 2
    /\ recvd["q1"][1].err /\ recvd["q1"][1].isICMP
    /\ ~recvd["q1"][2].isICMP /\ recvd["q1"][2].origin = 1
    /\ Len(replies["q1"]) = 2

(***************************************************************************)
(* C5.  If every candidate has a fresh status=0 cache entry when the query *)
(* starts, the query launches no probe.                                    *)
(***************************************************************************)
AllFreshReachable(q) ==
    \A k \in 1..Len(Cands(q)) :
        HostEntry0(q, Cands(q)[k].ip).ok /\ HostEntry0(q, Cands(q)[k].ip).status = 0

C5_AllHitNoProbes ==
    \A q \in Queries :
        (PastShortCircuit(q) /\ AllFreshReachable(q)) => Len(probes[q]) = 0

(***************************************************************************)
(* C6.  getFromCache returns the candidate with the minimum latency among  *)
(* the candidates with a fresh status=0 entry, and returns no winner only  *)
(* when no candidate has such an entry.                                    *)
(***************************************************************************)
FreshReachable(q) ==
    {k \in 1..Len(Cands(q)) :
        Lookup0(q, Cands(q)[k].ip).ok /\ Lookup0(q, Cands(q)[k].ip).status = 0}

C6_CachedWinnerIsMinimum ==
    \A q \in Queries :
        PastShortCircuit(q) =>
            /\ cached[q].found <=> FreshReachable(q) # {}
            /\ cached[q].found =>
                   /\ \E k \in FreshReachable(q) : Cands(q)[k].ip = cached[q].ip
                   /\ \A k \in FreshReachable(q) :
                          Lookup0(q, cached[q].ip).latencyMsec
                              <= Lookup0(q, Cands(q)[k].ip).latencyMsec

(***************************************************************************)
(* C7.  Once ExchangeAll has returned, pingWait and exchangeFastest        *)
(* eventually return; pingWait receives at most `launched` results and     *)
(* reports that no candidate is reachable exactly when it has received all *)
(* of them and none succeeded.                                             *)
(***************************************************************************)
PingWaitBounded(q) ==
    /\ n[q] <= total[q]
    /\ n[q] = Len(recvd[q])
    /\ pc[q] = "wait" => n[q] < total[q]
    /\ (pc[q] = "done" /\ ret[q].path \in {"probe", "all_failed"}) =>
           (ret[q].path = "all_failed" <=>
               (n[q] = total[q] /\ \A k \in 1..Len(recvd[q]) : recvd[q][k].err))

C7_RaceTerminates ==
    /\ [](\A q \in Queries : PingWaitBounded(q))
    /\ \A q \in Queries : (pc[q] \in {"launch", "wait"}) ~> (pc[q] = "done")

\* all four probes of a query failed and pingWait reported it
C7_Witness ==
    /\ pc["q1"] = "done" /\ ret["q1"].path = "all_failed"
    /\ n["q1"] = 4 /\ total["q1"] = 4

(***************************************************************************)
(* C8.  Every probe that has run to its end has sent exactly one result on *)
(* the channel, and no probe ever sends two.                               *)
(***************************************************************************)
SentBy(q, i) ==
    LET all == recvd[q] \o ch[q]
    IN  Cardinality({k \in 1..Len(all) : all[k].pid = i})

C8_OneResultPerProbe ==
    \A q \in Queries : \A i \in 1..Len(probes[q]) :
        /\ probes[q][i].sends <= 1
        /\ probes[q][i].st = "returned" <=> probes[q][i].sends = 1
        /\ SentBy(q, i) = probes[q][i].sends

\* four probes have ended, ICMP and TCP, failures and successes among them
C8_Witness ==
    LET all == recvd["q1"] \o ch["q1"]
    IN  /\ Len(probes["q1"]) = 4
        /\ \A i \in 1..4 : probes["q1"][i].st = "returned"
        /\ \E k \in 1..Len(all) : all[k].isICMP /\ all[k].err
        /\ \E k \in 1..Len(all) : all[k].isICMP /\ ~all[k].err
        /\ \E k \in 1..Len(all) : ~all[k].isICMP /\ all[k].err
        /\ \E k \in 1..Len(all) : ~all[k].isICMP /\ ~all[k].err

(***************************************************************************)
(* C9.  The result channel has room for every probe the query launches,    *)
(* so no probe ever finds the channel full when it sends.                  *)
(***************************************************************************)
C9_ChannelHoldsAllResults ==
    \A q \in Queries :
        /\ Len(probes[q]) <= chcap[q]
        /\ \A i \in 1..Len(probes[q]) :
               probes[q][i].st = "running" => Len(ch[q]) < chcap[q]

C11_CachedWinnerAfterFailedRace ==
    \A q \in Queries :
        (pc[q] = "done" /\ ret[q].path = "all_failed" /\ cached[q].found) =>
            LET ans == msgs[q][ret[q].resp].Answer
            IN  /\ ret[q].address = cached[q].ip
                /\ \A j \in 1..Len(ans) :
                       IsAddrRR(ans[j]) => RRAddr(ans[j]) = cached[q].ip

(***************************************************************************)
(* C12.  When every launched probe failed and the cache-only pass found no *)
(* cached winner, exchangeFastest returns the first reply and its upstream *)
(* with a nil error, and the Answer section of that reply is as ExchangeAll*)
(* returned it.                                                            *)
(***************************************************************************)
C12_AllFailedFirstReplyUnchanged ==
    \A q \in Queries :
        (pc[q] = "done" /\ ret[q].path = "all_failed" /\ ~cached[q].found) =>
            /\ ret[q].resp = replies[q][1].Resp
            /\ ret[q].upstream = replies[q][1].Upstream
            /\ ~ret[q].err
            /\ msgs[q][ret[q].resp] = msgs0[q][ret[q].resp]

\* the four probes of two replies failed with nothing cached: the first of
\* the two replies is returned
C12_Witness ==
    /\ pc["q1"] = "done" /\ ret["q1"].path = "all_failed"
    /\ ~cached["q1"].found
    /\ Len(replies["q1"]) = 2
    /\ Len(recvd["q1"]) = 4
    /\ ret["q1"].upstream = "u1"

(***************************************************************************)
(* C13.  When ExchangeAll returns an error, exchangeFastest returns that   *)
(* error with no response and no upstream; it has started no probe, looked *)
(* nothing up in the cache and written nothing to it.                      *)
(***************************************************************************)
C13_ErrorPropagated ==
    \A q \in Queries :
        (pc[q] = "done" /\ ret[q].path = "error" /\ ret[q].err) =>
            /\ ret[q].resp = 0
            /\ ret[q].upstream = "nil"
            /\ probes[q] = << >> /\ ch[q] = << >> /\ recvd[q] = << >>
            /\ cached[q] = NoCached
            /\ cache = cache0[q]

\* ExchangeAll fails for the second query, the cache holding what the
\* first one stored
C13_Witness ==
    /\ started = 2
    /\ pc["q1"] = "done" /\ ret["q1"].path = "error" /\ ret["q1"].err
    /\ cache # EmptyCache

(***************************************************************************)
(* C14.  When the replies hold, all together, zero or one A/AAAA record,   *)
(* exchangeFastest returns the first reply as ExchangeAll returned it,     *)
(* with its upstream and a nil error, and has made no cache lookup, no     *)
(* cache write and started no probe.                                       *)
(***************************************************************************)
C14_ShortCircuit ==
    \A q \in Queries :
        (pc[q] # "idle" /\ ret[q].path # "error" /\ Len(Cands(q)) <= 1) =>
            /\ pc[q] = "done" /\ ret[q].path = "short"
            /\ ret[q].resp = replies[q][1].Resp
            /\ ret[q].upstream = replies[q][1].Upstream
            /\ ~ret[q].err
            /\ msgs[q] = msgs0[q]
            /\ probes[q] = << >> /\ ch[q] = << >> /\ recvd[q] = << >>
            /\ cached[q] = NoCached
            /\ cache = cache0[q]

\* the only address record is in the second of two replies and the cache
\* holds an entry for it: the first reply is returned, nothing looked up
C14_Witness ==
    /\ pc["q1"] = "done" /\ ret["q1"].path = "short"
    /\ Len(replies["q1"]) = 2
    /\ Len(Cands("q1")) = 1
    /\ cache[Cands("q1")[1].ip] # << >>
    /\ ret["q1"].upstream = "u1"

(***************************************************************************)
(* C15.  Cache round trip: after cacheAdd stored an entry for an address   *)
(* at time t, cacheFind on the same address returns the entry's status and *)
(* latency at every time before t + cacheTTLSec, and a miss from then on.  *)
(***************************************************************************)
C15_CacheRoundTrip ==
    (lastAdd.done /\ lastFind.done /\ lastFind.ip = lastAdd.addr) =>
        lastFind.ent = StoredEntry(lastFind.t)

(***************************************************************************)
(* C16.  A cacheAdd given the v4-mapped 16-byte form of an address and a   *)
(* cacheFind given its 4-byte form refer to the same entry: the find       *)
(* returns what the add stored, until it expires.                          *)
(***************************************************************************)
C16_MappedAddFoundByV4 ==
    (/\ lastAdd.done /\ lastFind.done
     /\ Len(lastAdd.addr) = 16 /\ To4(lastAdd.addr) # NilIP
     /\ lastFind.ip = To4(lastAdd.addr)) =>
        lastFind.ent = StoredEntry(lastFind.t)

\* an entry stored for ::ffff:1.1.1.1 is found under 1.1.1.1 in the last
\* second of its life, latency 65535 with it
C16_Witness ==
    /\ lastAdd.done /\ lastAdd.addr = IPm
    /\ lastAdd.ent = [status |-> 0, latencyMsec |-> 65535]
    /\ lastFind.done /\ lastFind.ip = IPa
    /\ lastFind.t = lastAdd.t + cacheTTLSec - 1
    /\ lastFind.ent.ok /\ lastFind.ent.latencyMsec = 65535

(***************************************************************************)
(* C17.  prepareReply changes nothing of the response it is given except   *)
(* that it removes the A/AAAA records that do not match the chosen         *)
(* address: the header is the same, the non-address records are the same   *)
(* in the same order, and the Answer section is the original one without   *)
(* the address records of other hosts.  The other replies are untouched.   *)
(***************************************************************************)
SameHost(ip, address) == cacheKey(ip) = cacheKey(address)

OtherRecords(ans) == SelectSeq(ans, LAMBDA a : ~IsAddrRR(a))

C17_RewriterFrame ==
    \A q \in Queries :
        Rewrote(q) =>
            LET before == msgs0[q][ret[q].resp]
                after == msgs[q][ret[q].resp]
            IN  /\ after.Id = before.Id
                /\ OtherRecords(after.Answer) = OtherRecords(before.Answer)
                /\ after.Answer =
                       SelectSeq(before.Answer,
                                 LAMBDA a : IsAddrRR(a) => SameHost(a.ip, ret[q].address))
                /\ \A r \in DOMAIN msgs[q] :
                       r # ret[q].resp => msgs[q][r] = msgs0[q][r]

\* a reply with a CNAME and two A records was rewritten after a race: the
\* CNAME and one A record are left
C17_Witness ==
    /\ pc["q1"] = "done" /\ ret["q1"].path = "probe"
    /\ Len(msgs0["q1"][ret["q1"].resp].Answer) = 3
    /\ Len(msgs["q1"][ret["q1"].resp].Answer) = 2
    /\ msgs["q1"][ret["q1"].resp].Answer[1] = RRCNAME
    /\ IsAddrRR(msgs["q1"][ret["q1"].resp].Answer[2])

(***************************************************************************)
(* C18.  Whenever exchangeFastest returns the first reply because the      *)
(* launch pass started no probe, every candidate has a fresh cache entry   *)
(* and none of these entries is status=0, also when another query wrote    *)
(* the cache between the cache-only pass and the launch pass.              *)
(***************************************************************************)
C18_NoProbesMeansNoneReachable ==
    \A q \in Queries :
        (pc[q] = "done" /\ ret[q].path = "no_probes") =>
            \A k \in 1..Len(Cands(q)) :
                LET ent == cacheFind(cache, Cands(q)[k].ip, now)
                IN  ent.ok /\ ent.status # 0

(***************************************************************************)
(* C19.  cacheFind canonicalizes its key as cacheAdd does: the lookup of a *)
(* candidate, in whatever form its record carries the address, returns the *)
(* entry stored for that host, so that what a race stored is found by the  *)
(* cache-only pass of the next query.                                      *)
(***************************************************************************)
C19_LookupCanonicalizes ==
    \A q \in Queries :
        PastShortCircuit(q) =>
            \A k \in 1..Len(Cands(q)) :
                Lookup0(q, Cands(q)[k].ip) = HostEntry0(q, Cands(q)[k].ip)

(***************************************************************************)
(* C20.  pingWait stores every result it receives under the key of the     *)
(* result's address: status=1 for a result with an error, status=0 and the *)
(* result's latency otherwise.  The entry of an address is that of the     *)
(* last result received for it; when the race ends with every probe failed *)
(* the cache holds a status=1 entry for every address probed.              *)
(***************************************************************************)
LastFor(q, k) ==
    \A j \in (k + 1)..Len(recvd[q]) :
        cacheKey(recvd[q][j].addr) # cacheKey(recvd[q][k].addr)

C20_EveryResultCached ==
    \A q \in Queries :
        /\ \A k \in 1..Len(recvd[q]) :
               LastFor(q, k) =>
                   LET res == recvd[q][k]
                       data == cache[cacheKey(res.addr)]
                   IN  /\ data # << >>
                       /\ data[5] = (IF res.err THEN 1 ELSE 0)
                       /\ ~res.err => Uint16(SubSeq(data, 6, 7)) = res.latencyMsec
        /\ (pc[q] = "done" /\ ret[q].path = "all_failed") =>
               \A i \in 1..Len(probes[q]) :
                   /\ cache[cacheKey(probes[q][i].addr)] # << >>
                   /\ cache[cacheKey(probes[q][i].addr)][5] = 1

\* the probes of both addresses of a reply failed: both addresses are in the
\* cache with status=1
C20_Witness ==
    /\ pc["q1"] = "done" /\ ret["q1"].path = "all_failed"
    /\ Len(replies["q1"]) = 1 /\ Len(recvd["q1"]) = 4
    /\ cache[IPa] # << >> /\ cache[IPa][5] = 1
    /\ cache[IPb] # << >> /\ cache[IPb][5] = 1

(***************************************************************************)
(* C21.  In the cache-only pass a fresh status=1 entry counts in nCached   *)
(* as a status=0 entry does, and the cached winner is never a candidate    *)
(* whose entry is status=1, whatever the latencies.                        *)
(***************************************************************************)
FreshAny(q) == {k \in 1..Len(Cands(q)) : Lookup0(q, Cands(q)[k].ip).ok}

C21_UnreachableCountedNeverWinner ==
    \A q \in Queries :
        PastShortCircuit(q) =>
            /\ cached[q].n = Cardinality(FreshAny(q))
            /\ cached[q].found =>
                   /\ Lookup0(q, cached[q].ip).ok
                   /\ Lookup0(q, cached[q].ip).status = 0

\* one candidate has a status=1 entry of latency 0, the other a status=0
\* entry of a larger latency: both are counted, the second is the winner
C21_Witness ==
    /\ PastShortCircuit("q1") /\ Len(Cands("q1")) = 2
    /\ cached["q1"].n = 2 /\ cached["q1"].found
    /\ \E k \in 1..2 :
           /\ Lookup0("q1", Cands("q1")[k].ip).status = 1
           /\ Lookup0("q1", Cands("q1")[k].ip).latencyMsec
                  < Lookup0("q1", cached["q1"].ip).latencyMsec

(***************************************************************************)
(* C22.  The launch pass starts, for every candidate whose lookup misses,  *)
(* one probe of each enabled family, and none for a candidate with a fresh *)
(* entry; the count handed to pingWait is the number of probes started,    *)
(* which is the number of missing candidates times the number of enabled   *)
(* families and at most twice the number of candidates.                    *)
(***************************************************************************)
Families == (IF allowICMP THEN 1 ELSE 0) + (IF allowTCP THEN 1 ELSE 0)

\* the probes of family icmp started for the k-th candidate
StartedFor(ps, k, c, icmp) ==
    {i \in 1..Len(ps) : ps[i].addr = c.ip /\ ps[i].origin = c.idx /\ ps[i].isICMP = icmp}

C22_OneProbePerFamilyPerMiss ==
    /\ [](\A q \in Queries :
            (pc[q] = "wait" \/ (pc[q] = "done" /\ Len(probes[q]) > 0)) =>
                /\ total[q] = Len(probes[q])
                /\ total[q] <= 2 * Len(Cands(q)))
    /\ [][\A q \in Queries :
            (pc[q] = "launch" /\ pc'[q] # "launch") =>
                LET cs == Cands(q)
                    miss == {k \in 1..Len(cs) : ~cacheFind(cache, cs[k].ip, now).ok}
                IN  /\ Len(probes'[q]) = Cardinality(miss) * Families
                    /\ total'[q] = Len(probes'[q])
                    /\ \A k \in 1..Len(cs) :
                           /\ Cardinality(StartedFor(probes'[q], k, cs[k], TRUE)) =
                                  (IF k \in miss /\ allowICMP THEN 1 ELSE 0)
                           /\ Cardinality(StartedFor(probes'[q], k, cs[k], FALSE)) =
                                  (IF k \in miss /\ allowTCP THEN 1 ELSE 0)]_vars

\* of two candidates one has a fresh entry: two probes, both of the other
C22_Witness ==
    /\ pc["q1"] = "wait"
    /\ Len(Cands("q1")) = 2
    /\ Len(probes["q1"]) = 2 /\ total["q1"] = 2
    /\ probes["q1"][1].isICMP /\ ~probes["q1"][2].isICMP
    /\ cache[probes["q1"][1].addr] = << >>

(***************************************************************************)
(* C23.  A probe never writes the cache: a step in which a probe ends      *)
(* leaves the cache as it is, and the cache changes only in a step in      *)
(* which pingWait receives a result, by the entry of that result.          *)
(***************************************************************************)
C23_OnlyPingWaitWritesCache ==
    [][/\ \A q \in Queries : probes'[q] # probes[q] => cache' = cache
       /\ cache' # cache =>
              \E q \in Queries :
                  /\ pc[q] = "wait"
                  /\ Len(recvd'[q]) = Len(recvd[q]) + 1
                  /\ LET res == recvd'[q][Len(recvd'[q])]
                     IN  cache' = cacheAdd(cache,
                                      [status |-> IF res.err THEN 1 ELSE 0,
                                       latencyMsec |-> res.latencyMsec],
                                      res.addr, now)]_vars

\* a probe has succeeded and sent its result, pingWait has not received it
\* yet: the cache has no entry for the probe's address
C23_Witness ==
    /\ pc["q1"] = "wait"
    /\ \E i \in 1..Len(probes["q1"]) :
           /\ probes["q1"][i].st = "returned"
           /\ i \in Buffered("q1")
           /\ \E k \in 1..Len(ch["q1"]) : ch["q1"][k].pid = i /\ ~ch["q1"][k].err
           /\ cache[cacheKey(probes["q1"][i].addr)] = << >>

(***************************************************************************)
(* C24.  A stored value shorter than the 7-byte record is treated as a     *)
(* miss: the lookup returns no entry and does not fail.                    *)
(***************************************************************************)
C24_ShortValueIsMiss ==
    (codec.stage = "unpacked" /\ codec.len < 7) =>
        ~codec.out.ok /\ ~codec.out.panic

(***************************************************************************)
(* C25.  The latency read back from a record is the latency stored clamped *)
(* to 65535: min(L, 65535) for every L >= 0.                               *)
(***************************************************************************)
C25_LatencyClamped ==
    (codec.stage = "unpacked" /\ codec.out.ok) =>
        codec.out.latencyMsec =
            (IF codec.ent.latencyMsec > 65535 THEN 65535 ELSE codec.ent.latencyMsec)

(***************************************************************************)
(* C26.  For every creation time the expiry packCacheEntry writes is later *)
(* than that time: a record is not expired at the moment it is written.    *)
(***************************************************************************)
C26_ExpiryAfterCreation ==
    codec.stage # "none" =>
        LET hi == Uint16(SubSeq(codec.data, 1, 2))
            lo == Uint16(SubSeq(codec.data, 3, 4))
        IN  /\ hi > codec.t[1] \/ (hi = codec.t[1] /\ lo > codec.t[2])
            /\ (codec.stage = "unpacked" /\ codec.len = 7 /\ codec.at = codec.t) =>
                   codec.out.ok

(***************************************************************************)
(* C27.  A candidate whose entry is expired is handled as a candidate with *)
(* no entry: the cache-only pass and the launch pass give what they would  *)
(* give on the cache without its expired entries.  A lookup deletes        *)
(* nothing: the stored value of a key changes only when pingWait stores a  *)
(* result for that key.                                                    *)
(***************************************************************************)
\* the value is a record whose expiry is at or before t
PastExpiry(data, t) ==
    /\ data # << >>
    /\ Uint16(SubSeq(data, 1, 2)) * 65536 + Uint16(SubSeq(data, 3, 4)) <= t

\* the cache without the records expired at t
Purged(c, t) == [k \in DOMAIN c |-> IF PastExpiry(c[k], t) THEN << >> ELSE c[k]]

C27_ExpiredIsAbsent ==
    /\ [](\A q \in Queries :
            PastShortCircuit(q) =>
                cached[q] = getFromCache(replies[q], msgs0[q],
                                         Purged(cache0[q], now0[q]), now0[q]))
    /\ [][/\ \A q \in Queries :
               (pc[q] = "launch" /\ pc'[q] # "launch") =>
                   probes'[q] = launchLoop(Cands(q), 1, Purged(cache, now), now,
                                           allowICMP, allowTCP)
          /\ \A k \in DOMAIN cache :
               cache'[k] # cache[k] =>
                   \E q \in Queries :
                       /\ Len(recvd'[q]) = Len(recvd[q]) + 1
                       /\ cacheKey(recvd'[q][Len(recvd'[q])].addr) = k]_vars

\* a candidate's entry has expired: it was not counted, a probe of it is
\* running, and the expired record is still stored
C27_Witness ==
    /\ pc["q1"] = "wait"
    /\ cached["q1"].n = 0
    /\ \E i \in 1..Len(probes["q1"]) :
           /\ probes["q1"][i].st = "running"
           /\ PastExpiry(cache0["q1"][probes["q1"][i].addr], now0["q1"])
           /\ PastExpiry(cache[probes["q1"][i].addr], now)

(***************************************************************************)
(* C28.  The outcome is a function of the replies, the cache and the clock *)
(* at the call, and the sequence of results delivered: the address, the    *)
(* response and upstream returned and the messages are those Outcome       *)
(* computes from these alone, and so are the status and latency of every   *)
(* cache entry left behind; an entry no delivered result names is left as  *)
(* it was, and the whole cache, expiry stamps included, is Outcome's when   *)
(* the clock read the same throughout.                                     *)
(***************************************************************************)
\* status and latency of a stored record
Body(data) == IF data = << >> THEN << >> ELSE SubSeq(data, 5, 7)

EntryOf(res) ==
    [status |-> IF res.err THEN 1 ELSE 0, latencyMsec |-> res.latencyMsec]

RECURSIVE CacheAfter(_, _, _, _)
CacheAfter(c, dl, k, t) ==
    IF k > Len(dl) THEN c
    ELSE CacheAfter(cacheAdd(c, EntryOf(dl[k]), dl[k].addr, t), dl, k + 1, t)

Outcome(rs, ms, c, t, dl) ==
    LET g == getFromCache(rs, ms, c, t)
        last == rs[Len(rs)]
        first == [address |-> NilIP, resp |-> rs[1].Resp,
                  upstream |-> rs[1].Upstream, msgs |-> ms,
                  cache |-> CacheAfter(c, dl, 1, t)]
        rewritten(address) ==
            [address |-> address, resp |-> last.Resp, upstream |-> last.Upstream,
             msgs |-> [ms EXCEPT ![last.Resp] = prepareReply(ms[last.Resp], address)],
             cache |-> CacheAfter(c, dl, 1, t)]
    IN  IF Len(Candidates(rs, ms)) <= 1 THEN first
        ELSE IF g.found /\ g.n = Len(Candidates(rs, ms)) THEN rewritten(g.ip)
        ELSE IF dl = << >> \/ dl[Len(dl)].err THEN first
        ELSE rewritten(dl[Len(dl)].addr)

C28_OutcomeIsFunctionOfDelivery ==
    \A q \in Queries :
        (pc[q] = "done" /\ ret[q].path # "error") =>
            LET o == Outcome(replies[q], msgs0[q], cache0[q], now0[q], recvd[q])
            IN  /\ ret[q].address = o.address
                /\ ret[q].resp = o.resp
                /\ ret[q].upstream = o.upstream
                /\ msgs[q] = o.msgs
                /\ \A k \in DOMAIN cache :
                       /\ Body(cache[k]) = Body(o.cache[k])
                       /\ (\A j \in 1..Len(recvd[q]) : cacheKey(recvd[q][j].addr) # k)
                              => cache[k] = cache0[q][k]
                /\ now = now0[q] => cache = o.cache

\* a failure was delivered first, then a success, which won; a success for
\* another address reached the channel as well but was delivered to nobody
C28_Witness ==
    /\ pc["q1"] = "done" /\ ret["q1"].path = "probe"
    /\ Len(recvd["q1"]) = 2 /\ recvd["q1"][1].err
    /\ \E k \in 1..Len(ch["q1"]) :
           ~ch["q1"][k].err /\ ch["q1"][k].addr # ret["q1"].address

(***************************************************************************)
(* C29.  At most one reply of a query is changed: while the query runs and *)
(* on the short-circuit, zero-probes and all-failed returns every message  *)
(* is as ExchangeAll delivered it; on a cache or probe return the message  *)
(* returned is the filtered one and every other message is unchanged.      *)
(***************************************************************************)
Mutated(q) == {i \in DOMAIN msgs[q] : msgs[q][i] # msgs0[q][i]}

C29_AtMostOneReplyMutated ==
    \A q \in Queries :
        /\ DOMAIN msgs[q] = DOMAIN msgs0[q]
        /\ Cardinality(Mutated(q)) <= 1
        /\ Mutated(q) # {} => Rewrote(q) /\ Mutated(q) = {ret[q].resp}
        /\ Rewrote(q) =>
               msgs[q][ret[q].resp] =
                   prepareReply(msgs0[q][ret[q].resp], ret[q].address)
        /\ (pc[q] = "done" /\ ret[q].path \in {"short", "no_probes", "all_failed"})
               => msgs[q] = msgs0[q]

\* two replies, both holding the winning address; only the returned one lost
\* its other address record
C29_Witness ==
    /\ pc["q1"] = "done" /\ ret["q1"].path = "probe"
    /\ Len(msgs0["q1"]) = 2 /\ ret["q1"].resp = 2
    /\ Contains(msgs0["q1"][1].Answer, ret["q1"].address)
    /\ msgs["q1"][1] = msgs0["q1"][1]
    /\ Len(msgs["q1"][2].Answer) < Len(msgs0["q1"][2].Answer)

(***************************************************************************)
(* C30.  A call that returned gave its caller a response with its upstream *)
(* or an error, whatever ExchangeAll produced.                             *)
(***************************************************************************)
C30_ResponseOrError ==
    \A q \in Queries :
        pc[q] = "done" =>
            \/ ret[q].err
            \/ ret[q].resp \in DOMAIN msgs[q] /\ ret[q].upstream # "nil"

(***************************************************************************)
(* C31.  No receipt of a probe result by pingWait replaces a fresh         *)
(* status=0 entry of the cache by a fresh status=1 entry, also when        *)
(* another call of exchangeFastest stores its results in the same cache    *)
(* while this one waits for its own.                                       *)
(***************************************************************************)
FreshWith(c, k, t, st) ==
    LET ent == cacheFind(c, k, t) IN ent.ok /\ ent.status = st

C31_ReachableNotOverwritten ==
    [][\A q \in Queries :
          recvd'[q] # recvd[q] =>
              \A k \in DOMAIN cache :
                  FreshWith(cache, k, now, 0) => ~FreshWith(cache', k, now', 1)]_vars

(***************************************************************************)
(* C32.  A call that returned a response returned with it the upstream of  *)
(* the same element of ExchangeAll's result, on the cache return, the      *)
(* probe return and the three returns of the first reply; an error return  *)
(* carries neither.                                                        *)
(***************************************************************************)
C32_UpstreamPairedWithResponse ==
    \A q \in Queries :
        pc[q] = "done" =>
            IF ret[q].path = "error"
            THEN ret[q].resp = 0 /\ ret[q].upstream = "nil"
            ELSE /\ ret[q].path \in {"short", "fast", "no_probes", "all_failed", "probe"}
                 /\ ret[q].resp \in DOMAIN replies[q]
                 /\ replies[q][ret[q].resp].Resp = ret[q].resp
                 /\ replies[q][ret[q].resp].Upstream = ret[q].upstream

\* the second reply was returned after a race, with the second upstream
C32_Witness ==
    /\ pc["q1"] = "done" /\ ret["q1"].path = "probe"
    /\ Len(replies["q1"]) = 2
    /\ ret["q1"].resp = 2 /\ ret["q1"].upstream = "u2"
    /\ replies["q1"][1].Upstream = "u1"

(***************************************************************************)
(* C33.  prepareReply is idempotent: applied again with the same address   *)
(* to the message it returned, it returns the same answer section as the   *)
(* first application did, and every record the first application kept is   *)
(* one it keeps.                                                           *)
(***************************************************************************)
C33_PrepareReplyIdempotent ==
    applied.n >= 2 =>
        /\ applied.out = applied.once
        /\ applied.out = applied.prev
        /\ \A j \in 1..Len(applied.once) : KeepRR(applied.once[j], applied.address)

\* a CNAME, the A record of the address and another A record, filtered twice
\* with the address in its 16-byte form: the first application dropped one
C33_Witness ==
    /\ applied.n = 2
    /\ applied.address = IPm
    /\ applied.resp.Answer = <<RRCNAME, RRA(IPa), RRA(IPb)>>
    /\ applied.once = <<RRCNAME, RRA(IPa)>>

====
